---- MODULE Spec2Model ----
(***************************************************************************)
(* Model of the debate bot's request-resilience core:                      *)
(*   - RateLimiter            (app/middleware/rate_limiter.py)             *)
(*   - RetryService           (app/services/retry_service.py)              *)
(*   - ConversationService    (app/services/conversation_service.py)       *)
(*   - DatabaseManager        (app/models/database.py)                     *)
(*   - ResponseValidator      (app/utils/validators.py)                    *)
(*   - ChatRequest            (app/models/schemas.py)                      *)
(*   - the /chat endpoint     (app/main.py)                                *)
(* The specifications share the variables: SpecRL drives the rate limiter, *)
(* SpecRetry the retry service, Spec the conversation service (one request *)
(* at a time), SpecChat the endpoint behind the middleware, SpecApi the    *)
(* endpoint behind the request schema, SpecValidator the validator alone,  *)
(* SpecDb the database manager alone, SpecRLSteps the rate limiter with    *)
(* the calls of concurrent requests taken statement by statement.          *)
(***************************************************************************)
EXTENDS Integers, Sequences, FiniteSets, TLC

VARIABLES
    now,          \* time.time(), in ticks of 1/Scale second
    requests,     \* RateLimiter.requests: client ip -> deque of timestamps
    allowedLog,   \* history: per ip, the timestamps of the calls answered allowed
    lastCall,     \* history: per ip, the last is_allowed call and its answer
    unswept,      \* history: the deques the same calls leave when no cleanup runs
    limiterCalls, \* the is_allowed calls in progress, statement by statement
    retry,        \* one safe_openai_call invocation of RetryService
    conversations,\* table conversations: id -> row (max_turns)
    messages,     \* table messages, in insertion (id / created_at) order
    req           \* the requests in flight: locals of chat / ConversationService

vars == <<now, requests, allowedLog, lastCall, unswept, limiterCalls, retry, conversations, messages, req>>

rlVars == <<now, requests, allowedLog, lastCall, unswept, limiterCalls>>
retryVars == <<retry>>
convVars == <<conversations, messages, req>>

(***************************************************************************)
(* Bounds of the model                                                     *)
(***************************************************************************)
Scale == 2            \* ticks per second: timestamps are floats, so a second is divisible
MaxTime == 7          \* last tick the clock reaches
max_requests == 2     \* RateLimiter(max_requests=...), 100 in production
window_seconds == 2   \* RateLimiter(window_seconds=...), 60 in production
MaxConvs == 1         \* conversation ids available
MaxMsgs == 4          \* rows of the messages table
NumReqs == 1          \* request slots of the server
max_message_length == 2   \* settings.max_message_length, 5000 in production

Keys == {"ip1", "ip2"}
Window == window_seconds * Scale   \* the window in ticks

(***************************************************************************)
(* RateLimiter                                                             *)
(***************************************************************************)
\* Python int(): truncation toward zero of x/Scale seconds, x in ticks
IntSeconds(x) == IF x >= 0 THEN x \div Scale ELSE -((-x) \div Scale)

\* while client_requests and client_requests[0] <= cutoff: popleft()
RECURSIVE EvictExclusive(_, _)
EvictExclusive(q, cutoff) ==
    IF q # <<>> /\ Head(q) < cutoff THEN EvictExclusive(Tail(q), cutoff) ELSE q
EvictOne(q, cutoff) ==
    IF q # <<>> /\ Head(q) <= cutoff THEN Tail(q) ELSE q
RECURSIVE Evict(_, _)
Evict(q, cutoff) ==
    IF q # <<>> /\ Head(q) <= cutoff THEN Evict(Tail(q), cutoff) ELSE q

\* if len(client_requests) < self.max_requests
UnderLimitOffByOne(q) == Len(q) <= max_requests
UnderLimit(q) == Len(q) < max_requests

\* retry_after = int(oldest_request + window_seconds - current_time) + 1, in seconds
RetryAfterNoPlusOne(oldest, t) == IntSeconds(oldest + Window - t)
RetryAfterCeil(oldest, t) == (oldest + Window - t + Scale - 1) \div Scale
RetryAfter(oldest, t) == IntSeconds(oldest + Window - t) + 1

\* RateLimiter.is_allowed on the deque q at time t: the deque left behind and the answer
IsAllowedDenialRefreshes(q, t) ==
    LET q1 == Evict(q, t - Window) IN
    IF UnderLimit(q1)
    THEN [queue |-> Append(q1, t), allowed |-> TRUE]
    ELSE [queue |-> Append(Tail(q1), t), allowed |-> FALSE,
          retry_after |-> RetryAfter(Head(q1), t)]
is_allowed(q, t) ==
    LET q1 == Evict(q, t - Window) IN
    IF UnderLimit(q1)
    THEN [queue |-> Append(q1, t), allowed |-> TRUE]
    ELSE [queue |-> q1, allowed |-> FALSE, retry_after |-> RetryAfter(Head(q1), t)]

\* self.requests[client_ip] of a defaultdict(deque)
QueueOf(k) == IF k \in DOMAIN requests THEN requests[k] ELSE <<>>

\* RateLimiter.cleanup_old_entries at time t: every deque is evicted, then the keys
\* whose deque is empty are deleted
CleanupForgetsAll(reqs, t) == [k \in {} |-> <<>>]
CleanupDropsStale(reqs, t) ==
    LET keep == {k \in DOMAIN reqs : reqs[k] # <<>> /\ Head(reqs[k]) > t - Window}
    IN [k \in keep |-> reqs[k]]
cleanup_old_entries(reqs, t) ==
    LET ev == [k \in DOMAIN reqs |-> Evict(reqs[k], t - Window)]
        keep == {k \in DOMAIN reqs : ev[k] # <<>>}
    IN [k \in keep |-> ev[k]]

\* one call rate_limiter.is_allowed(k); lastCall[k].atRetryTime records whether this
\* call comes exactly retry_after seconds after a denial, with no call for k in between,
\* lastCall[k].oldest the oldest_request a denial was computed from
RateLimiterCall(k) ==
    LET res == is_allowed(QueueOf(k), now)
        prev == lastCall[k]
        atRetry == /\ prev.made
                   /\ ~prev.allowed
                   /\ now = prev.at + prev.retry_after * Scale
    IN /\ requests' = [kk \in DOMAIN requests \cup {k} |->
                          IF kk = k THEN res.queue ELSE requests[kk]]
       /\ allowedLog' = IF res.allowed
                        THEN [allowedLog EXCEPT ![k] = Append(@, now)]
                        ELSE allowedLog
       /\ lastCall' = [lastCall EXCEPT ![k] =
                          [made |-> TRUE, at |-> now, allowed |-> res.allowed,
                           retry_after |-> IF res.allowed THEN 0 ELSE res.retry_after,
                           oldest |-> IF res.allowed THEN 0 ELSE Head(res.queue),
                           atRetryTime |-> atRetry]]
       /\ unswept' = [unswept EXCEPT ![k] = is_allowed(@, now).queue]

IsAllowed(k) ==
    /\ RateLimiterCall(k)
    /\ UNCHANGED <<now, limiterCalls, retryVars, convVars>>

\* a sweep that changes nothing is a stuttering step
Cleanup ==
    /\ requests' = cleanup_old_entries(requests, now)
    /\ requests' # requests
    /\ UNCHANGED <<now, allowedLog, lastCall, unswept, limiterCalls, retryVars, convVars>>

\* the clock advances (timestamps are non-decreasing)
Tick ==
    /\ now < MaxTime
    /\ now' = now + 1
    /\ UNCHANGED <<requests, allowedLog, lastCall, unswept, limiterCalls, retryVars, convVars>>

(***************************************************************************)
(* RateLimiter.is_allowed, statement by statement                          *)
(***************************************************************************)
\* the requests whose dispatch coroutine calls rate_limiter.is_allowed
Callers == {"req1", "req2"}

CallIdle == [pc |-> "idle", key |-> "", current_time |-> 0]

\* the client_ip the concurrent requests share: deques of different keys are
\* independent of each other
SharedKey == "ip1"

\* is_allowed is a plain def with no await, called from dispatch on the one event
\* loop of the process: once a call is entered, no other request's call runs before
\* it returns
MayRunPreempted(c) == TRUE
MayRun(c) == \A o \in Callers \ {c} : limiterCalls[o].pc \in {"idle", "ready"}

\* a request arrives: its dispatch coroutine is scheduled on the event loop
Arrive(c) ==
    /\ limiterCalls[c].pc = "idle"
    /\ limiterCalls' = [limiterCalls EXCEPT ![c] = [CallIdle EXCEPT !.pc = "ready",
                                                                    !.key = SharedKey]]
    /\ UNCHANGED <<now, requests, allowedLog, lastCall, unswept, retryVars, convVars>>

\* current_time = time.time(); client_requests = self.requests[client_ip]
Enter(c) ==
    /\ limiterCalls[c].pc = "ready"
    /\ MayRun(c)
    /\ limiterCalls' = [limiterCalls EXCEPT ![c].pc = "evict",
                                            ![c].current_time = now]
    /\ requests' = [kk \in DOMAIN requests \cup {limiterCalls[c].key} |-> QueueOf(kk)]
    /\ UNCHANGED <<now, allowedLog, lastCall, unswept, retryVars, convVars>>

\* while client_requests and client_requests[0] <= current_time - window: popleft()
EvictStep(c) ==
    LET k == limiterCalls[c].key
        t == limiterCalls[c].current_time
    IN /\ limiterCalls[c].pc = "evict"
       /\ MayRun(c)
       /\ requests' = [requests EXCEPT ![k] = Evict(@, t - Window)]
       /\ limiterCalls' = [limiterCalls EXCEPT ![c].pc = "count"]
       /\ UNCHANGED <<now, allowedLog, lastCall, unswept, retryVars, convVars>>

\* if len(client_requests) < self.max_requests
CountStep(c) ==
    /\ limiterCalls[c].pc = "count"
    /\ MayRun(c)
    /\ limiterCalls' = [limiterCalls EXCEPT ![c].pc =
                          IF UnderLimit(requests[limiterCalls[c].key])
                          THEN "append" ELSE "deny"]
    /\ UNCHANGED <<now, requests, allowedLog, lastCall, unswept, retryVars, convVars>>

\* client_requests.append(current_time); return True, None
AppendStep(c) ==
    LET k == limiterCalls[c].key
        t == limiterCalls[c].current_time
    IN /\ limiterCalls[c].pc = "append"
       /\ MayRun(c)
       /\ requests' = [requests EXCEPT ![k] = Append(@, t)]
       /\ allowedLog' = [allowedLog EXCEPT ![k] = Append(@, t)]
       /\ limiterCalls' = [limiterCalls EXCEPT ![c] = CallIdle]
       /\ UNCHANGED <<now, lastCall, unswept, retryVars, convVars>>

\* return False, {...}: nothing is recorded
DenyStep(c) ==
    /\ limiterCalls[c].pc = "deny"
    /\ MayRun(c)
    /\ limiterCalls' = [limiterCalls EXCEPT ![c] = CallIdle]
    /\ UNCHANGED <<now, requests, allowedLog, lastCall, unswept, retryVars, convVars>>

(***************************************************************************)
(* RetryService                                                            *)
(***************************************************************************)
\* what one call of the wrapped function does: it returns, or raises one of these
ErrorClasses == {"AuthenticationError", "RateLimitError", "APITimeoutError",
                 "APIError", "Exception"}
FuncOutcomes == {"ok"} \cup ErrorClasses

\* the classes of the openai package imported by retry_service.py, with their bases:
\* AuthenticationError and RateLimitError derive from APIStatusError(APIError),
\* APITimeoutError from APIConnectionError(APIError), APIError from Exception
Bases(cls) ==
    CASE cls = "AuthenticationError" -> {"AuthenticationError", "APIError", "Exception"}
      [] cls = "RateLimitError"      -> {"RateLimitError", "APIError", "Exception"}
      [] cls = "APITimeoutError"     -> {"APITimeoutError", "APIError", "Exception"}
      [] cls = "APIError"            -> {"APIError", "Exception"}
      [] OTHER                       -> {"Exception"}

IsInstance(e, classes) == Bases(e) \cap classes # {}

\* retry=retry_if_exception_type((RateLimitError, APITimeoutError, APIError))
RetryIfRateLimitOnly(e) == IsInstance(e, {"RateLimitError"})
RetryIfAnyException(e) == IsInstance(e, {"Exception"})
RetryIfExceptionType(e) ==
    IsInstance(e, {"RateLimitError", "APITimeoutError", "APIError"})

\* stop=stop_after_attempt(3)
stop_after_attempt == 3

\* the transient classes of the specification: rate limit, timeout, generic API error
Transient == {"RateLimitError", "APITimeoutError", "APIError"}

\* safe_openai_call: except AuthenticationError / except Exception as e:
\*     return fallback_value, False
SafeCallCatchesApiErrors(e) == IsInstance(e, {"AuthenticationError", "APIError"})
SafeCallCatches(e) == IsInstance(e, {"AuthenticationError", "Exception"})

\* raised: what call_openai_with_retry raised; escaped: what safe_openai_call raised
RetryIdle == [pc |-> "idle", calls |-> 0, outcomes |-> <<>>,
              raised |-> "none", escaped |-> "none",
              success |-> FALSE, result |-> "none"]

\* safe_openai_call(func, fallback_value) is entered
SafeCallBegin ==
    /\ retry.pc = "idle"
    /\ retry' = [RetryIdle EXCEPT !.pc = "calling"]
    /\ UNCHANGED <<rlVars, convVars>>

\* one attempt of call_openai_with_retry: func is called and returns or raises o.
\* The except clauses of call_openai_with_retry all re-raise; tenacity then retries
\* when the exception matches and fewer than stop_after_attempt attempts were made,
\* otherwise re-raises it (reraise=True) into safe_openai_call, which returns
\* (fallback_value, False) for the exceptions it catches.
CallFunc ==
    /\ retry.pc = "calling"
    /\ \E o \in FuncOutcomes :
         LET n == retry.calls + 1
             made == [retry EXCEPT !.calls = n, !.outcomes = Append(@, o)]
         IN retry' =
              IF o = "ok"
              THEN [made EXCEPT !.pc = "done", !.success = TRUE, !.result = "value"]
              ELSE IF RetryIfExceptionType(o) /\ n < stop_after_attempt
                   THEN made
                   ELSE IF SafeCallCatches(o)
                   THEN [made EXCEPT !.pc = "done", !.raised = o,
                                     !.success = FALSE, !.result = "fallback_value"]
                   ELSE [made EXCEPT !.pc = "done", !.raised = o, !.escaped = o]
    /\ UNCHANGED <<rlVars, convVars>>

\* safe_openai_call has returned; the service is ready for the next call
SafeCallReturn ==
    /\ retry.pc = "done"
    /\ retry' = RetryIdle
    /\ UNCHANGED <<rlVars, convVars>>

(***************************************************************************)
(* ResponseValidator                                                       *)
(***************************************************************************)
min_length == 10
max_length == 3000
min_words == 5
max_words == 200

\* A candidate text is represented by what the validator reads of it:
\* chars = len(response.strip()), words = len(response.split()), agree = the
\* inappropriate_phrases it contains, generic / ender = whether it contains one of
\* the generic_phrases / conversation_enders.
Cand(chars, words, agree, generic, ender) ==
    [chars |-> chars, words |-> words, agree |-> agree, generic |-> generic, ender |-> ender]

Candidates ==
    { Cand(60, 10, {}, FALSE, FALSE),                      \* a sound reply
      Cand(0, 0, {}, FALSE, FALSE),                        \* ""
      Cand(5, 1, {}, FALSE, FALSE),                        \* "Hello"
      Cand(12, 2, {}, FALSE, FALSE),                       \* long enough, too few words
      Cand(9, 2, {"i'm sorry"}, FALSE, FALSE),             \* "I'm sorry"
      Cand(60, 10, {"i agree completely"}, FALSE, FALSE),
      Cand(60, 10, {}, TRUE, FALSE),                       \* "... maybe ..."
      Cand(60, 10, {}, FALSE, TRUE),                       \* "... case closed ..."
      Cand(3001, 150, {}, FALSE, FALSE),
      Cand(1000, 201, {}, FALSE, FALSE) }

\* the text generate_response builds from bot_position when the LLM call fails
ChainFallbackCandidate == Cand(120, 20, {}, FALSE, FALSE)

inappropriate_phrases ==
    <<"i'm sorry", "i apologize", "you're absolutely right", "i agree completely",
      "that's correct", "you make a good point", "i was wrong", "i change my mind">>

RECURSIVE AgreementIssues(_, _)
AgreementIssues(c, i) ==
    IF i > Len(inappropriate_phrases) THEN <<>>
    ELSE (IF inappropriate_phrases[i] \in c.agree
          THEN <<"inappropriate agreement: " \o inappropriate_phrases[i]>>
          ELSE <<>>) \o AgreementIssues(c, i + 1)

ValidateResponseLengthMerged(c) ==
    LET issues ==
          IF \/ c.chars < min_length \/ c.chars > max_length
             \/ c.words < min_words \/ c.words > max_words
          THEN <<"length out of bounds">> ELSE <<>>
    IN [valid |-> Len(issues) = 0, issues |-> issues]
validate_response_length(c) ==
    LET issues ==
          (IF c.chars < min_length THEN <<"too short">> ELSE <<>>) \o
          (IF c.chars > max_length THEN <<"too long">> ELSE <<>>) \o
          (IF c.words < min_words THEN <<"too few words">> ELSE <<>>) \o
          (IF c.words > max_words THEN <<"too many words">> ELSE <<>>)
    IN [valid |-> Len(issues) = 0, issues |-> issues]

validate_response_content(c) ==
    LET issues ==
          AgreementIssues(c, 1) \o
          (IF c.generic THEN <<"too generic or uncertain">> ELSE <<>>)
    IN [valid |-> Len(issues) = 0, issues |-> issues]

validate_debate_engagement(c) ==
    LET issues == IF c.ender THEN <<"conversation-ending phrases">> ELSE <<>>
    IN [valid |-> Len(issues) = 0, issues |-> issues]

\* comprehensive_validation(response, position): the three checks are all run and
\* their issues concatenated
ComprehensiveValidationFirstFailure(c) ==
    LET l == validate_response_length(c)
        n == validate_response_content(c)
        e == validate_debate_engagement(c)
        issues == IF ~l.valid THEN l.issues
                  ELSE IF ~n.valid THEN n.issues ELSE e.issues
    IN [is_valid |-> l.valid /\ n.valid /\ e.valid,
        issues |-> issues,
        length_valid |-> l.valid, content_valid |-> n.valid,
        engagement_valid |-> e.valid]
comprehensive_validation(c) ==
    LET l == validate_response_length(c)
        n == validate_response_content(c)
        e == validate_debate_engagement(c)
    IN [is_valid |-> l.valid /\ n.valid /\ e.valid,
        issues |-> l.issues \o n.issues \o e.issues,
        length_valid |-> l.valid, content_valid |-> n.valid,
        engagement_valid |-> e.valid]

\* The texts the validator is called with on its own: every combination of the
\* lengths around the four limits and of the phrases it looks for that some text has
\* (a text has a word iff it has a character, words are separated by whitespace, and
\* a phrase it contains takes its characters and words).
CharCounts == {0, 5, 9, 10, 60, 3000, 3001}
WordCounts == {0, 1, 4, 5, 10, 200, 201}
AgreePhrases == {"i'm sorry", "i apologize"}

NeedsChars(agree, generic, ender) ==
    (IF "i'm sorry" \in agree THEN 10 ELSE 0) + (IF "i apologize" \in agree THEN 12 ELSE 0)
      + (IF generic THEN 6 ELSE 0) + (IF ender THEN 12 ELSE 0)
NeedsWords(agree, generic, ender) ==
    2 * Cardinality(agree) + (IF generic THEN 1 ELSE 0) + (IF ender THEN 2 ELSE 0)

IsText(c) ==
    /\ (c.words = 0) = (c.chars = 0)
    /\ 2 * c.words <= c.chars + 1
    /\ NeedsChars(c.agree, c.generic, c.ender) <= c.chars + 1
    /\ NeedsWords(c.agree, c.generic, c.ender) <= c.words

ValidatorInputs ==
    {c \in [chars : CharCounts, words : WordCounts, agree : SUBSET AgreePhrases,
            generic : BOOLEAN, ender : BOOLEAN] : IsText(c)}

(***************************************************************************)
(* ChatRequest: the request schema                                         *)
(***************************************************************************)
\* a text is a sequence of characters; " " stands for the whitespace characters
Chars == {" ", "a"}
RawMessages == UNION {[1..n -> Chars] : n \in 0..(max_message_length + 1)}

\* str.strip()
RECURSIVE StripLeft(_)
StripLeft(v) == IF v # <<>> /\ Head(v) = " " THEN StripLeft(Tail(v)) ELSE v
RECURSIVE StripRight(_)
StripRight(v) ==
    IF v # <<>> /\ v[Len(v)] = " " THEN StripRight(SubSeq(v, 1, Len(v) - 1)) ELSE v
Strip(v) == StripRight(StripLeft(v))

\* conversation_id: Optional[str] = None. An absent field and a JSON null are both
\* None; a string is "", "null" or names the session id (0: no session id).
NoneId == [is_none |-> TRUE, text |-> "", id |-> 0]
StrId(text, id) == [is_none |-> FALSE, text |-> text, id |-> id]
RawConversationIds ==
    {NoneId, StrId("", 0), StrId("null", 0)} \cup {StrId("uuid", i) : i \in 1..MaxConvs}

\* validate_conversation_id: if v == "" or v == "null": return None
validate_conversation_id(v) ==
    IF ~v.is_none /\ (v.text = "" \/ v.text = "null") THEN NoneId ELSE v

\* message: str = Field(..., min_length=1)
message_min_length == 1

\* the bodies of POST /chat that carry both fields as strings or null
ChatRequests == [conversation_id : RawConversationIds, message : RawMessages]

\* ChatRequest(**body): min_length is checked on the message as sent, then
\* validate_message_length rejects an over-long message and returns v.strip()
ChatRequest(body) ==
    IF Len(body.message) < message_min_length \/ Len(body.message) > max_message_length
    THEN [valid |-> FALSE, raw_conversation_id |-> body.conversation_id,
          conversation_id |-> NoneId, message |-> <<>>]
    ELSE [valid |-> TRUE, raw_conversation_id |-> body.conversation_id,
          conversation_id |-> validate_conversation_id(body.conversation_id),
          message |-> Strip(body.message)]

NoRequest == [valid |-> FALSE, raw_conversation_id |-> NoneId,
              conversation_id |-> NoneId, message |-> <<>>]

(***************************************************************************)
(* DatabaseManager                                                         *)
(***************************************************************************)
ConvIds == 1..MaxConvs
Reqs == 1..NumReqs

\* create_conversation(topic, bot_position, original_topic): original_topic has no
\* default, so a call that does not pass it raises TypeError before any row is added
create_conversation(convs, id, has_original_topic) ==
    IF has_original_topic
    THEN [raised |-> "none",
          conversations |-> [c \in DOMAIN convs \cup {id} |->
                                IF c = id THEN [max_turns |-> 0] ELSE convs[c]]]
    ELSE [raised |-> "TypeError", conversations |-> convs]

\* get_conversation(conversation_id) is not None
conversation_exists(id) == id \in DOMAIN conversations

MaxTakesLatter(a, b) == b
Max(a, b) == IF a >= b THEN a ELSE b

\* max_turns after a committed add_message: only a bot message raises it
MaxTurnsAfterAnyRole(convs, id, turn, role) ==
    IF id \in DOMAIN convs
    THEN [convs EXCEPT ![id].max_turns = Max(@, turn)]
    ELSE convs
MaxTurnsAfter(convs, id, turn, role) ==
    IF role = "bot" /\ id \in DOMAIN convs
    THEN [convs EXCEPT ![id].max_turns = Max(@, turn)]
    ELSE convs

\* add_message(conversation_id, turn, role, message); committed = the commit went
\* through. On an exception the session is rolled back and False is returned.
add_message(convs, msgs, id, turn, role, message, committed) ==
    IF committed
    THEN [ok |-> TRUE,
          messages |-> Append(msgs, [conversation_id |-> id, turn |-> turn,
                                     role |-> role, message |-> message]),
          conversations |-> MaxTurnsAfter(convs, id, turn, role)]
    ELSE [ok |-> FALSE, messages |-> msgs, conversations |-> convs]

\* get_next_turn(conversation_id)
NextTurnIsMaxTurns(id) ==
    IF ~conversation_exists(id) THEN 1 ELSE conversations[id].max_turns
get_next_turn(id) ==
    IF ~conversation_exists(id) THEN 1 ELSE conversations[id].max_turns + 1

\* get_current_turn_messages(conversation_id, turn): order_by(created_at)
get_current_turn_messages(msgs, id, turn) ==
    SelectSeq(msgs, LAMBDA m : m.conversation_id = id /\ m.turn = turn)

\* get_conversation_history(conversation_id): order_by(turn, created_at)
RECURSIVE HistoryFrom(_, _, _)
HistoryFrom(msgs, id, turn) ==
    IF turn > Len(msgs) + 1 THEN <<>>
    ELSE get_current_turn_messages(msgs, id, turn) \o HistoryFrom(msgs, id, turn + 1)
get_conversation_history(msgs, id) == HistoryFrom(msgs, id, 1)

(***************************************************************************)
(* ConversationService and the /chat endpoint                              *)
(***************************************************************************)
max_validation_attempts == 3

UserMessages == {<<"a">>}

NoCandidate == [none |-> TRUE]
NoVerdict == [none |-> TRUE]

\* what a chain call of the current attempt did: how it ended, the error self.llm
\* raised in it, and the number of self.llm.invoke calls it made
NoCall == [kind |-> "none", error |-> "none", invokes |-> 0]

ReqIdle ==
    [pc |-> "idle", path |-> "", request |-> NoRequest,
     kind |-> "none", conversation_id |-> 0, user_message |-> <<>>,
     conversation |-> "unread", topic_is_str |-> TRUE, next_turn |-> 0,
     user_saved |-> FALSE, bot_saved |-> FALSE,
     attempt |-> 0, generated_response |-> NoCandidate,
     validation_result |-> NoVerdict, validator_result |-> NoVerdict,
     gen_call |-> NoCall, check_call |-> NoCall, only_short |-> TRUE,
     gen_calls |-> 0, check_calls |-> 0,
     raises |-> 0, is_allowed |-> TRUE, db_result |-> "none",
     bot_response |-> [source |-> "none", empty |-> TRUE],
     escaped |-> "none", raised |-> "none", status |-> 0,
     result |-> [messages |-> <<>>, conversation_history |-> <<>>]]

AllIdle == \A r \in Reqs : req[r].pc = "idle"

\* chat() takes up the request of slot r, which waits at pc = from: the handler runs
\* without awaiting, so no other request is being handled
Serving(r, from) == req[r].pc = from /\ \A o \in Reqs \ {r} : req[o].pc = "idle"

\* chat(): the exception of the service call, or none, becomes the HTTP status
chat_status(raised) ==
    CASE raised = "none" -> 200
      [] raised = "ValueError" -> 400
      [] raised = "ConversationNotFoundError" -> 404
      [] raised = "AIServiceError" -> 503
      [] OTHER -> 500

\* start_new_conversation / continue_conversation: except Exception as e:
\*     raise AIServiceError(...)   -- every exception raised in the try block
ServiceExceptReraises(e) == e
ServiceExcept(e) == "AIServiceError"

\* the request ends with exception e raised inside the service's try block
FailsCarriesOn(rec, e) == [rec EXCEPT !.pc = "next_turn"]
Fails(rec, e) ==
    [rec EXCEPT !.pc = "done", !.escaped = e, !.raised = ServiceExcept(e),
                !.status = chat_status(ServiceExcept(e))]

\* DatabaseManager.create_conversation called with all of its arguments
CreateConversation ==
    /\ AllIdle
    /\ \E id \in ConvIds \ DOMAIN conversations :
         LET made == create_conversation(conversations, id, TRUE)
         IN /\ made.raised = "none"
            /\ conversations' = made.conversations
    /\ UNCHANGED <<rlVars, retryVars, messages, req>>

\* chat() with conversation_id None or "": start_new_conversation(message), steps 1-3.
\* analyze_topic and assign_position return, or an exception escapes them; then
\* create_conversation(topic=..., bot_position=...) is called without original_topic.
StartNewConversationWith(r, from, user_messages) ==
    /\ Serving(r, from)
    /\ Len(messages) + 2 <= MaxMsgs
    /\ \E m \in user_messages, chains \in {"ok", "raise"}, id \in ConvIds :
         LET rec == [req[r] EXCEPT !.kind = "start", !.user_message = m]
             made == create_conversation(conversations, id, FALSE)
         IN IF chains = "raise"
            THEN /\ req' = [req EXCEPT ![r] = Fails(rec, "ChainError")]
                 /\ UNCHANGED conversations
            ELSE IF made.raised # "none"
            THEN /\ req' = [req EXCEPT ![r] = Fails(rec, made.raised)]
                 /\ UNCHANGED conversations
            ELSE /\ id \notin DOMAIN conversations
                 /\ conversations' = made.conversations
                 /\ req' = [req EXCEPT ![r] =
                              [rec EXCEPT !.pc = "add_user", !.conversation_id = id,
                                          !.conversation = "found", !.next_turn = 1]]
    /\ UNCHANGED <<rlVars, retryVars, messages>>

StartNewConversationFrom(r, from) == StartNewConversationWith(r, from, UserMessages)

StartNewConversation(r) == StartNewConversationFrom(r, "idle")

\* chat() with a conversation_id: continue_conversation(conversation_id, message),
\* step 1: get_conversation; None raises ConversationNotFoundError inside the try
ContinueConversationWith(r, from, user_messages, ids) ==
    /\ Serving(r, from)
    /\ Len(messages) + 2 <= MaxMsgs
    /\ \E m \in user_messages, id \in ids :
         LET rec == [req[r] EXCEPT !.kind = "continue", !.user_message = m,
                                    !.conversation_id = id]
         IN req' = [req EXCEPT ![r] =
                      IF conversation_exists(id)
                      THEN [rec EXCEPT !.pc = "next_turn", !.conversation = "found"]
                      ELSE Fails([rec EXCEPT !.conversation = "none"],
                                 "ConversationNotFoundError")]
    /\ UNCHANGED <<rlVars, retryVars, conversations, messages>>

ContinueConversationFrom(r, from) ==
    ContinueConversationWith(r, from, UserMessages, ConvIds)

ContinueConversation(r) == ContinueConversationFrom(r, "idle")

\* step 2: next_turn = db_manager.get_next_turn(conversation_id)
GetNextTurn(r) ==
    /\ req[r].pc = "next_turn"
    /\ req' = [req EXCEPT ![r].next_turn = get_next_turn(req[r].conversation_id),
                          ![r].pc = "add_user"]
    /\ UNCHANGED <<rlVars, retryVars, conversations, messages>>

\* step 3 (step 4 of start_new_conversation): add_message(..., "user", user_message);
\* the returned flag is not read
AddUserMessage(r) ==
    /\ req[r].pc = "add_user"
    /\ \E committed \in BOOLEAN :
         LET w == add_message(conversations, messages, req[r].conversation_id,
                              req[r].next_turn, "user",
                              [source |-> "user", empty |-> req[r].user_message = <<>>],
                              committed)
         IN /\ messages' = w.messages
            /\ conversations' = w.conversations
            /\ req' = [req EXCEPT ![r].pc = "generate", ![r].user_saved = w.ok]
    /\ UNCHANGED <<rlVars, retryVars>>

\* a candidate the validator finds too short: too few characters or too few words
TooShort(c) == c.chars < min_length \/ c.words < min_words

\* _generate_response: the end of a failed attempt; the last one breaks to the fallback
AttemptFailedNoCap(rec) ==
    [rec EXCEPT !.generated_response = NoCandidate, !.validation_result = NoVerdict,
                !.validator_result = NoVerdict, !.attempt = @ + 1, !.pc = "generate"]
AttemptFailedCapPlusOne(rec) ==
    LET cleared == [rec EXCEPT !.generated_response = NoCandidate,
                               !.validation_result = NoVerdict,
                               !.validator_result = NoVerdict]
    IN IF rec.attempt = max_validation_attempts
       THEN [cleared EXCEPT !.pc = "fallback"]
       ELSE [cleared EXCEPT !.attempt = @ + 1, !.pc = "generate"]
AttemptFailedGivesUp(rec) ==
    [rec EXCEPT !.generated_response = NoCandidate, !.validation_result = NoVerdict,
                !.validator_result = NoVerdict, !.pc = "fallback"]
AttemptFailed(rec) ==
    LET cleared == [rec EXCEPT !.generated_response = NoCandidate,
                               !.validation_result = NoVerdict,
                               !.validator_result = NoVerdict]
    IN IF rec.attempt = max_validation_attempts - 1
       THEN [cleared EXCEPT !.pc = "fallback"]
       ELSE [cleared EXCEPT !.attempt = @ + 1, !.pc = "generate"]

\* the error self.llm.invoke raises in a chain: both chains catch Exception, so the
\* class makes no difference to them, and a transient one is taken
LlmErrors == {"RateLimitError"}

\* response = self.llm.invoke(formatted_prompt): the chains call the client directly,
\* once per chain call, whatever it returns or raises
LlmInvokes(error) == 1

\* what the chain calls of an attempt did is known until the attempt is decided
Forget(rec) == [rec EXCEPT !.gen_call = NoCall, !.check_call = NoCall]

\* what persuasive_response.generate_response does in one attempt: the LLM answers
\* with a text, or the LLM call fails and the chain returns its own fallback text,
\* or an exception escapes the chain
GeneratorOutcomes ==
    [kind : {"text"}, text : Candidates, error : {"none"}] \cup
    {[kind |-> "llm_error", text |-> ChainFallbackCandidate, error |-> e] :
        e \in LlmErrors} \cup
    {[kind |-> "raise", text |-> NoCandidate, error |-> "none"]}

\* generated_response = self.persuasive_response.generate_response(...), outcome o
GenerateStepDropsLlmError(rec, o) ==
    LET called == [rec EXCEPT !.gen_calls = @ + 1]
    IN IF o.kind = "raise"
       THEN AttemptFailed(Forget([called EXCEPT !.only_short = FALSE,
                                                !.raises = @ + 1]))
       ELSE IF o.kind = "llm_error"
       THEN AttemptFailed([called EXCEPT
                             !.gen_call = [kind |-> o.kind, error |-> o.error,
                                           invokes |-> LlmInvokes(o.error)],
                             !.only_short = FALSE])
       ELSE [called EXCEPT !.generated_response = o.text,
                           !.gen_call = [kind |-> o.kind, error |-> o.error,
                                         invokes |-> LlmInvokes(o.error)],
                           !.only_short = @ /\ TooShort(o.text),
                           !.pc = "check"]
GenerateStep(rec, o) ==
    LET called == [rec EXCEPT !.gen_calls = @ + 1]
    IN IF o.kind = "raise"
       THEN AttemptFailed(Forget([called EXCEPT !.only_short = FALSE,
                                                !.raises = @ + 1]))
       ELSE [called EXCEPT !.generated_response = o.text,
                           !.gen_call = [kind |-> o.kind, error |-> o.error,
                                         invokes |-> LlmInvokes(o.error)],
                           !.only_short = @ /\ o.kind = "text" /\ TooShort(o.text),
                           !.pc = "check"]

Generate(r) ==
    /\ req[r].pc = "generate"
    /\ \E o \in GeneratorOutcomes :
         req' = [req EXCEPT ![r] = GenerateStep(req[r], o)]
    /\ UNCHANGED <<rlVars, retryVars, conversations, messages>>

\* consistency_validation.validate_response: the dict it returns for what the LLM did.
\* A parsed answer always carries "approved" (default True when the JSON has no such
\* key); the except branch (the LLM call raised, or json.loads did) returns
\* fallback_output, which has no "approved" key.
ValidateResponseFailOpen(o) ==
    CASE o = "rejected" -> [has_approved |-> TRUE, approved |-> FALSE]
      [] OTHER          -> [has_approved |-> TRUE, approved |-> TRUE]
validate_response(o) ==
    CASE o = "approved" -> [has_approved |-> TRUE, approved |-> TRUE]
      [] o = "rejected" -> [has_approved |-> TRUE, approved |-> FALSE]
      [] o = "no_key"   -> [has_approved |-> TRUE, approved |-> TRUE]
      [] OTHER          -> [has_approved |-> FALSE, approved |-> FALSE]

\* what validate_response does in one attempt: the LLM answers with JSON that
\* approves, rejects or has no "approved" key, or with text that is not JSON, or the
\* LLM call fails, or an exception escapes the chain
ConsistencyOutcomes ==
    [kind : {"approved", "rejected", "no_key", "invalid_json", "raise"},
     error : {"none"}] \cup
    [kind : {"llm_error"}, error : LlmErrors]

\* validation_result = self.consistency_validation.validate_response(...), outcome o
ConsistencyStep(rec, o) ==
    LET called == [rec EXCEPT !.check_calls = @ + 1]
    IN IF o.kind = "raise"
       THEN AttemptFailed(Forget([called EXCEPT !.raises = @ + 1]))
       ELSE [called EXCEPT !.validation_result = validate_response(o.kind),
                           !.check_call = [kind |-> o.kind, error |-> o.error,
                                           invokes |-> LlmInvokes(o.error)],
                           !.pc = "validate"]

ConsistencyCheck(r) ==
    /\ req[r].pc = "check"
    /\ \E o \in ConsistencyOutcomes :
         req' = [req EXCEPT ![r] = ConsistencyStep(req[r], o)]
    /\ UNCHANGED <<rlVars, retryVars, conversations, messages>>

\* if validation_result.get("approved", False) and validator_result.get("is_valid", False)
AcceptsEither(validation_result, validator_result) ==
    \/ validation_result.has_approved /\ validation_result.approved
    \/ validator_result.is_valid
Accepts(validation_result, validator_result) ==
    /\ validation_result.has_approved /\ validation_result.approved
    /\ validator_result.is_valid

\* comprehensive_validation of the candidate, then accept (return generated_response)
\* or fail the attempt
DecideStep(rec) ==
    LET verdict == comprehensive_validation(rec.generated_response)
        judged == [rec EXCEPT !.validator_result = verdict]
    IN IF Accepts(rec.validation_result, verdict)
       THEN [Forget(judged) EXCEPT
               !.bot_response = [source |-> "generated",
                                 empty |-> rec.generated_response.chars = 0],
               !.pc = "add_bot"]
       ELSE AttemptFailed(Forget(judged))

ValidateAndDecide(r) ==
    /\ req[r].pc = "validate"
    /\ req' = [req EXCEPT ![r] = DecideStep(req[r])]
    /\ UNCHANGED <<rlVars, retryVars, conversations, messages>>

\* FallbackResponseGenerator.get_fallback_response: random.choice over lists of
\* non-empty literals (str.replace of a non-empty topic keeps the text non-empty);
\* topic.lower() raises when the analysed topic is not a string, and the outer
\* except of _generate_response then returns get_technical_error_response(...)
get_fallback_response(topic_is_str) ==
    IF topic_is_str
    THEN [source |-> "fallback", empty |-> FALSE]
    ELSE [source |-> "technical", empty |-> FALSE]

FallbackStep(rec) ==
    [rec EXCEPT !.bot_response = get_fallback_response(rec.topic_is_str),
                !.pc = "add_bot"]

Fallback(r) ==
    /\ req[r].pc = "fallback"
    /\ req' = [req EXCEPT ![r] = FallbackStep(req[r])]
    /\ UNCHANGED <<rlVars, retryVars, conversations, messages>>

\* step 6: add_message(..., "bot", bot_response); the returned flag is not read
AddBotMessage(r) ==
    /\ req[r].pc = "add_bot"
    /\ \E committed \in BOOLEAN :
         LET w == add_message(conversations, messages, req[r].conversation_id,
                              req[r].next_turn, "bot",
                              [source |-> req[r].bot_response.source,
                               empty |-> req[r].bot_response.empty],
                              committed)
         IN /\ messages' = w.messages
            /\ conversations' = w.conversations
            /\ req' = [req EXCEPT ![r].pc = "respond", ![r].bot_saved = w.ok]
    /\ UNCHANGED <<rlVars, retryVars>>

\* step 7: the result is read back from the database and returned; chat() answers 200
Respond(r) ==
    /\ req[r].pc = "respond"
    /\ req' = [req EXCEPT
                 ![r].result =
                    [messages |-> get_current_turn_messages(
                                     messages, req[r].conversation_id, req[r].next_turn),
                     conversation_history |-> get_conversation_history(
                                     messages, req[r].conversation_id)],
                 ![r].status = chat_status("none"),
                 ![r].pc = "done"]
    /\ UNCHANGED <<rlVars, retryVars, conversations, messages>>

\* the response has been sent; the slot serves the next request
Finish(r) ==
    /\ req[r].pc = "done"
    /\ req' = [req EXCEPT ![r] = ReqIdle]
    /\ UNCHANGED <<rlVars, retryVars, conversations, messages>>

(***************************************************************************)
(* RateLimitMiddleware in front of the /chat endpoint                      *)
(***************************************************************************)
\* what the generator and the consistency check do in one attempt of a whole run
AttemptOutcomes ==
    [gen : {[kind |-> "text", text |-> Cand(60, 10, {}, FALSE, FALSE), error |-> "none"],
            [kind |-> "raise", text |-> NoCandidate, error |-> "none"]},
     check : [kind : {"approved", "rejected"}, error : {"none"}]]

\* _generate_response run to its return: the attempt loop, then the fallback;
\* outs[i] is what the two chains do in attempt i
RECURSIVE RunPipeline(_, _)
RunPipeline(rec, outs) ==
    CASE rec.pc = "generate" ->
           RunPipeline(GenerateStep(rec, outs[rec.attempt + 1].gen), outs)
      [] rec.pc = "check" ->
           RunPipeline(ConsistencyStep(rec, outs[rec.attempt + 1].check), outs)
      [] rec.pc = "validate" -> RunPipeline(DecideStep(rec), outs)
      [] rec.pc = "fallback" -> FallbackStep(rec)
      [] OTHER -> rec

\* what a call of _generate_response leaves behind: the reply it returns and the
\* calls it made (the locals of the loop end with the call)
PipelineResults ==
    {[bot_response |-> run.bot_response, gen_calls |-> run.gen_calls,
      check_calls |-> run.check_calls, pc |-> run.pc] :
        run \in {RunPipeline([ReqIdle EXCEPT !.pc = "generate"], outs) :
                    outs \in [1..max_validation_attempts -> AttemptOutcomes]}}

\* step 5 of the handlers as one step: bot_response = self._generate_response(...)
GenerateResponse(r) ==
    /\ req[r].pc = "generate"
    /\ \E run \in PipelineResults :
         req' = [req EXCEPT ![r] =
                   [req[r] EXCEPT !.bot_response = run.bot_response,
                                  !.gen_calls = run.gen_calls,
                                  !.check_calls = run.check_calls,
                                  !.pc = run.pc]]
    /\ UNCHANGED <<rlVars, retryVars, conversations, messages>>

\* dispatch: if not is_allowed: return JSONResponse(429, ...); else call_next(request)
AdmitsAll(res) == TRUE
Admits(res) == res.allowed

\* RateLimitMiddleware.dispatch for a request to /chat of client k, up to call_next
Dispatch(r) ==
    /\ AllIdle
    /\ \E k \in Keys :
         LET res == is_allowed(QueueOf(k), now)
         IN /\ RateLimiterCall(k)
            /\ req' = [req EXCEPT ![r] =
                         IF Admits(res)
                         THEN [ReqIdle EXCEPT !.pc = "admitted", !.path = "/chat",
                                              !.is_allowed = res.allowed]
                         ELSE [ReqIdle EXCEPT !.pc = "done", !.path = "/chat",
                                              !.is_allowed = res.allowed,
                                              !.status = 429]]
    /\ UNCHANGED <<now, limiterCalls, retryVars, conversations, messages>>

\* self.excluded_paths
NoExcludedPaths == {}
excluded_paths == {"/docs", "/openapi.json", "/redoc", "/health"}

\* the GET routes of the application: root(), health() and the documentation pages
GetPaths == {"/", "/health", "/docs", "/openapi.json", "/redoc"}

\* RateLimitMiddleware.dispatch for a GET request: a request to an excluded path goes
\* to call_next at once; any other is counted for its client like a request to /chat,
\* and its handler answers 200 without touching the tables
DispatchGet(r) ==
    /\ AllIdle
    /\ \E path \in GetPaths :
         IF path \in excluded_paths
         THEN /\ req' = [req EXCEPT ![r] = [ReqIdle EXCEPT !.pc = "passed",
                                                           !.path = path,
                                                           !.status = 200]]
              /\ UNCHANGED <<requests, allowedLog, lastCall, unswept>>
         ELSE \E k \in Keys :
                LET res == is_allowed(QueueOf(k), now)
                IN /\ RateLimiterCall(k)
                   /\ req' = [req EXCEPT ![r] =
                                [ReqIdle EXCEPT !.pc = "done", !.path = path,
                                                !.is_allowed = res.allowed,
                                                !.status = IF Admits(res) THEN 200
                                                           ELSE 429]]
    /\ UNCHANGED <<now, limiterCalls, retryVars, conversations, messages>>

\* return await call_next(request) of an excluded path: no cleanup follows
ExcludedReturn(r) ==
    /\ req[r].pc = "passed"
    /\ req' = [req EXCEPT ![r] = ReqIdle]
    /\ UNCHANGED <<rlVars, retryVars, conversations, messages>>

\* call_next(request): chat() with the admitted request
AdmittedStart(r) == StartNewConversationFrom(r, "admitted")

AdmittedContinue(r) == ContinueConversationFrom(r, "admitted")

\* if time.time() % 100 < 1
CleanupDue(t) == t % (100 * Scale) < Scale

\* dispatch returns the response: the 429 at once, the response of call_next after
\* the periodic cleanup
DispatchReturn(r) ==
    /\ req[r].pc = "done"
    /\ requests' = IF req[r].status # 429 /\ CleanupDue(now)
                   THEN cleanup_old_entries(requests, now)
                   ELSE requests
    /\ req' = [req EXCEPT ![r] = ReqIdle]
    /\ UNCHANGED <<now, allowedLog, lastCall, unswept, limiterCalls, retryVars, conversations, messages>>

(***************************************************************************)
(* POST /chat: the request schema in front of chat()                       *)
(***************************************************************************)
\* the body of a request is parsed into a ChatRequest; a body that fails validation
\* is answered 422 and chat() is not called
Receive(r) ==
    /\ Serving(r, "idle")
    /\ \E body \in ChatRequests :
         LET request == ChatRequest(body)
         IN req' = [req EXCEPT ![r] =
                      IF request.valid
                      THEN [ReqIdle EXCEPT !.pc = "parsed", !.request = request]
                      ELSE [ReqIdle EXCEPT !.pc = "done", !.request = request,
                                           !.status = 422]]
    /\ UNCHANGED <<rlVars, retryVars, conversations, messages>>

\* chat(): if request.conversation_id is None or request.conversation_id == ""
RoutesToStart(conversation_id) == conversation_id.is_none \/ conversation_id.text = ""

\* start_new_conversation(request.message)
ChatStart(r) ==
    /\ req[r].pc = "parsed"
    /\ RoutesToStart(req[r].request.conversation_id)
    /\ StartNewConversationWith(r, "parsed", {req[r].request.message})

\* continue_conversation(request.conversation_id, request.message)
ChatContinue(r) ==
    /\ req[r].pc = "parsed"
    /\ ~RoutesToStart(req[r].request.conversation_id)
    /\ ContinueConversationWith(r, "parsed", {req[r].request.message},
                                {req[r].request.conversation_id.id})

(***************************************************************************)
(* DatabaseManager called on its own                                       *)
(***************************************************************************)
\* the turn and role arguments of add_message
Turns == {1, 2}
Roles == {"user", "bot"}

\* db_manager.add_message(conversation_id, turn, role, message) by a caller that reads
\* the flag it returns; the session commits, or raises and is rolled back
DbAddMessage(r) ==
    /\ Serving(r, "idle")
    /\ Len(messages) < MaxMsgs
    /\ \E id \in ConvIds, turn \in Turns, role \in Roles, committed \in BOOLEAN :
         LET w == add_message(conversations, messages, id, turn, role,
                              [source |-> role, empty |-> FALSE], committed)
         IN /\ messages' = w.messages
            /\ conversations' = w.conversations
            /\ req' = [req EXCEPT ![r].pc = "db_done",
                                  ![r].db_result = IF w.ok THEN "True" ELSE "False"]
    /\ UNCHANGED <<rlVars, retryVars>>

\* the caller has read the flag
DbReturn(r) ==
    /\ req[r].pc = "db_done"
    /\ req' = [req EXCEPT ![r] = ReqIdle]
    /\ UNCHANGED <<rlVars, retryVars, conversations, messages>>

(***************************************************************************)
(* ResponseValidator called on its own                                     *)
(***************************************************************************)
\* validator_result = self.validator.comprehensive_validation(response, position)
Validate(r) ==
    /\ req[r].pc = "idle"
    /\ \E c \in ValidatorInputs :
         req' = [req EXCEPT ![r].generated_response = c,
                            ![r].validator_result = comprehensive_validation(c),
                            ![r].pc = "validated"]
    /\ UNCHANGED <<rlVars, retryVars, conversations, messages>>

\* the caller has read the verdict
ValidateReturn(r) ==
    /\ req[r].pc = "validated"
    /\ req' = [req EXCEPT ![r] = ReqIdle]
    /\ UNCHANGED <<rlVars, retryVars, conversations, messages>>

(***************************************************************************)
(* Specifications                                                          *)
(***************************************************************************)
Init ==
    /\ now = 0
    /\ requests = <<>>
    /\ allowedLog = [k \in Keys |-> <<>>]
    /\ lastCall = [k \in Keys |->
                     [made |-> FALSE, at |-> 0, allowed |-> TRUE,
                      retry_after |-> 0, oldest |-> 0, atRetryTime |-> FALSE]]
    /\ unswept = [k \in Keys |-> <<>>]
    /\ limiterCalls = [c \in Callers |-> CallIdle]
    /\ retry = RetryIdle
    /\ conversations = <<>>
    /\ messages = <<>>
    /\ req = [r \in Reqs |-> ReqIdle]

\* the rate limiter with the calls of concurrent requests taken statement by statement
NextRLSteps ==
    \/ \E c \in Callers : Arrive(c)
    \/ \E c \in Callers : Enter(c)
    \/ \E c \in Callers : EvictStep(c)
    \/ \E c \in Callers : CountStep(c)
    \/ \E c \in Callers : AppendStep(c)
    \/ \E c \in Callers : DenyStep(c)
    \/ Tick

SpecRLSteps == Init /\ [][NextRLSteps]_vars

\* the conversation service, one request at a time
Next ==
    \/ CreateConversation
    \/ \E r \in Reqs : StartNewConversation(r)
    \/ \E r \in Reqs : ContinueConversation(r)
    \/ \E r \in Reqs : GetNextTurn(r)
    \/ \E r \in Reqs : AddUserMessage(r)
    \/ \E r \in Reqs : Generate(r)
    \/ \E r \in Reqs : ConsistencyCheck(r)
    \/ \E r \in Reqs : ValidateAndDecide(r)
    \/ \E r \in Reqs : Fallback(r)
    \/ \E r \in Reqs : AddBotMessage(r)
    \/ \E r \in Reqs : Respond(r)
    \/ \E r \in Reqs : Finish(r)

Spec == Init /\ [][Next]_vars

\* the rate limiter under a clock
NextRL ==
    \/ Tick
    \/ \E k \in Keys : IsAllowed(k)
    \/ Cleanup

SpecRL == Init /\ [][NextRL]_vars

\* the /chat endpoint behind the rate limit middleware, one request at a time, during
\* one burst of requests (SpecRL drives the limiter under the clock)
NextChat ==
    \/ CreateConversation
    \/ \E r \in Reqs : Dispatch(r)
    \/ \E r \in Reqs : DispatchGet(r)
    \/ \E r \in Reqs : ExcludedReturn(r)
    \/ \E r \in Reqs : AdmittedStart(r)
    \/ \E r \in Reqs : AdmittedContinue(r)
    \/ \E r \in Reqs : GetNextTurn(r)
    \/ \E r \in Reqs : AddUserMessage(r)
    \/ \E r \in Reqs : GenerateResponse(r)
    \/ \E r \in Reqs : AddBotMessage(r)
    \/ \E r \in Reqs : Respond(r)
    \/ \E r \in Reqs : DispatchReturn(r)

SpecChat == Init /\ [][NextChat]_vars

\* the retry service
NextRetry ==
    \/ SafeCallBegin
    \/ CallFunc
    \/ SafeCallReturn

SpecRetry == Init /\ [][NextRetry]_vars

\* POST /chat from the request body to the response, one request at a time
NextApi ==
    \/ CreateConversation
    \/ \E r \in Reqs : Receive(r)
    \/ \E r \in Reqs : ChatStart(r)
    \/ \E r \in Reqs : ChatContinue(r)
    \/ \E r \in Reqs : GetNextTurn(r)
    \/ \E r \in Reqs : AddUserMessage(r)
    \/ \E r \in Reqs : GenerateResponse(r)
    \/ \E r \in Reqs : AddBotMessage(r)
    \/ \E r \in Reqs : Respond(r)
    \/ \E r \in Reqs : Finish(r)

SpecApi == Init /\ [][NextApi]_vars

\* the database manager on its own
NextDb ==
    \/ CreateConversation
    \/ \E r \in Reqs : DbAddMessage(r)
    \/ \E r \in Reqs : DbReturn(r)

SpecDb == Init /\ [][NextDb]_vars

\* the validator on its own
NextValidator ==
    \/ \E r \in Reqs : Validate(r)
    \/ \E r \in Reqs : ValidateReturn(r)

SpecValidator == Init /\ [][NextValidator]_vars

(***************************************************************************)
(* Properties                                                              *)
(***************************************************************************)
InPipeline(r) == req[r].pc \in {"generate", "check", "validate", "fallback"}
HasReply(r) == req[r].pc \in {"add_bot", "respond"}
                 \/ (req[r].pc = "done" /\ req[r].escaped = "none")

\* C1: an invocation of _generate_response makes at most 3 generation attempts
\* (attempt stays below 3, the generator is called at most 3 times), raises nothing
\* while it runs, and every reply it returns is non-empty, whatever the generator and
\* the consistency check return or raise in each attempt.
C1_PipelineBoundedNonEmpty ==
    \A r \in Reqs :
      /\ req[r].attempt < 3
      /\ req[r].gen_calls <= 3
      /\ InPipeline(r) => req[r].raised = "none" /\ req[r].gen_calls <= req[r].attempt + 1
      /\ HasReply(r) => /\ req[r].bot_response.source # "none"
                        /\ ~req[r].bot_response.empty
                        /\ req[r].raised = "none"

\* C1 witness: in each of the 3 attempts the generator or the consistency check
\* raised, both kinds of failure occurred, and a reply was returned
C1_Witness ==
    \E r \in Reqs : /\ HasReply(r)
                    /\ req[r].gen_calls = 3
                    /\ req[r].raises = 3
                    /\ req[r].check_calls > 0
                    /\ req[r].bot_response.source = "fallback"
                    /\ ~req[r].bot_response.empty

\* the timestamps of the allowed calls of key k inside the trailing window (t - W, t]
AllowedInWindow(k, t) ==
    {i \in 1..Len(allowedLog[k]) :
        allowedLog[k][i] > t - Window /\ allowedLog[k][i] <= t}

\* C2: for every key, the number of allowed calls whose timestamps fall in a trailing
\* window (t - window, t] never exceeds max_requests, for every window end t.
C2_WindowNeverExceeded ==
    \A k \in Keys : \A t \in 0..MaxTime :
        Cardinality(AllowedInWindow(k, t)) <= max_requests

\* C2 witness: the window has slid (more than max_requests calls were allowed over
\* time) and the key is full again: the last call was denied
C2_Witness ==
    \E k \in Keys : /\ Len(allowedLog[k]) > max_requests
                    /\ lastCall[k].made /\ ~lastCall[k].allowed
                    /\ Cardinality(AllowedInWindow(k, now)) = max_requests

\* C3: a generated candidate is the reply only if, in the attempt that produced it,
\* the consistency check approved it and the local validator found it valid.
C3_AcceptedOnlyIfBothPass ==
    \A r \in Reqs :
      req[r].bot_response.source = "generated" =>
        /\ req[r].generated_response \in Candidates \cup {ChainFallbackCandidate}
        /\ req[r].validation_result # NoVerdict
        /\ req[r].validation_result.has_approved /\ req[r].validation_result.approved
        /\ req[r].validator_result = comprehensive_validation(req[r].generated_response)
        /\ req[r].validator_result.is_valid

\* C3 witness: a candidate accepted on a later attempt, after an earlier one failed
C3_Witness ==
    \E r \in Reqs : req[r].bot_response.source = "generated" /\ req[r].attempt > 0

\* C4: continue_conversation for an id with no persisted session surfaces
\* ConversationNotFoundError, which /chat turns into HTTP 404.
C4_NotFoundSurfacesAs404 ==
    \A r \in Reqs :
      req[r].pc = "done" /\ req[r].kind = "continue" /\ req[r].conversation = "none" =>
        req[r].raised = "ConversationNotFoundError" /\ req[r].status = 404

\* C5: after the wrapped call fails with an authentication error no further call is
\* made: an authentication failure is always the last call of the invocation.
C5_AuthenticationNotRetried ==
    \A i \in 1..Len(retry.outcomes) :
      retry.outcomes[i] = "AuthenticationError" => i = Len(retry.outcomes)

OnlyTransient ==
    \A i \in 1..Len(retry.outcomes) : retry.outcomes[i] \in Transient \cup {"ok"}

\* C6: when the wrapped call fails only with transient errors, the caller never makes
\* more than 3 calls; it makes exactly 3 when every call fails, and stops at the first
\* call that succeeds, returning its result.
C6_TransientRetriedToCap ==
    /\ retry.calls <= 3
    /\ retry.calls = Len(retry.outcomes)
    /\ retry.pc = "done" /\ OnlyTransient =>
         IF \A i \in 1..Len(retry.outcomes) : retry.outcomes[i] # "ok"
         THEN retry.calls = 3 /\ ~retry.success
         ELSE /\ retry.outcomes[retry.calls] = "ok"
              /\ \A i \in 1..(retry.calls - 1) : retry.outcomes[i] # "ok"
              /\ retry.success /\ retry.result = "value"

\* C6 witness: two transient failures, then the third call succeeds
C6_Witness ==
    /\ retry.pc = "done"
    /\ retry.outcomes = <<"RateLimitError", "APITimeoutError", "ok">>
    /\ retry.success

\* C7: a call made exactly retry_after seconds after a denial of the same key, with no
\* call for that key in between, is allowed.
C7_RetryAfterIsHonoured ==
    \A k \in Keys : lastCall[k].made /\ lastCall[k].atRetryTime => lastCall[k].allowed

\* C7 witness: such a call was made, after a denial that fell a fraction of a second
\* before the oldest entry expired
C7_Witness ==
    \E k \in Keys : /\ lastCall[k].made /\ lastCall[k].atRetryTime /\ lastCall[k].allowed
                    /\ now % Scale # 0

\* C8: a start request whose generator returned a too-short candidate on every attempt
\* ends with 3 attempts made, the fallback reply, max_turns = 1 and exactly one user
\* and one bot message persisted for turn 1.
C8_NewSessionFallbackScenario ==
    \A r \in Reqs :
      /\ req[r].pc = "done" /\ req[r].kind = "start"
      /\ req[r].escaped # "ChainError" /\ req[r].only_short
      => /\ req[r].status = 200
         /\ req[r].gen_calls = 3
         /\ req[r].bot_response.source = "fallback"
         /\ req[r].conversation_id \in DOMAIN conversations
         /\ conversations[req[r].conversation_id].max_turns = 1
         /\ LET ms == get_current_turn_messages(messages, req[r].conversation_id, 1)
            IN Len(ms) = 2 /\ ms[1].role = "user" /\ ms[2].role = "bot"

HasMessage(id, turn, role) ==
    \E i \in 1..Len(messages) :
       /\ messages[i].conversation_id = id
       /\ messages[i].turn = turn
       /\ messages[i].role = role

CountMessages(id, turn, role) ==
    Cardinality({i \in 1..Len(messages) :
                    /\ messages[i].conversation_id = id
                    /\ messages[i].turn = turn
                    /\ messages[i].role = role})

CompleteTurns(id) ==
    {t \in 1..Len(messages) : HasMessage(id, t, "user") /\ HasMessage(id, t, "bot")}

\* C9: each session's max_turns equals the highest turn number for which both a user
\* and a bot message are persisted (0 when there is none).
C9_TurnCountIsHighestCompleteTurn ==
    \A id \in DOMAIN conversations :
      /\ \A t \in CompleteTurns(id) : t <= conversations[id].max_turns
      /\ conversations[id].max_turns = 0 \/ conversations[id].max_turns \in CompleteTurns(id)

TurnsOf(id) ==
    {messages[i].turn : i \in {j \in 1..Len(messages) : messages[j].conversation_id = id}}

\* C10: the turns of a session's messages are exactly 1..n for some n, each turn holds
\* at most one user and at most one bot message, and a bot message of a turn is
\* persisted only when a user message of that turn is.
C10_TurnsContiguousAndPaired ==
    \A id \in DOMAIN conversations :
      /\ TurnsOf(id) = 1..Cardinality(TurnsOf(id))
      /\ \A t \in TurnsOf(id) :
           /\ CountMessages(id, t, "user") <= 1
           /\ CountMessages(id, t, "bot") <= 1
           /\ HasMessage(id, t, "bot") => HasMessage(id, t, "user")

\* C11: two requests on the same session never obtain the same turn number: when a
\* request has obtained its turn number from get_next_turn, no message of the session
\* is already recorded under that turn (by an earlier request).
C11_TurnNumbersDistinct ==
    \A r \in Reqs :
      req[r].pc = "add_user" /\ req[r].kind = "continue" =>
        req[r].next_turn \notin TurnsOf(req[r].conversation_id)

\* C12: get_next_turn is 1 for a session with no recorded turn, and once a request has
\* recorded both the user and the bot message of turn n it is n + 1.
C12_NextTurnAfterRecordedTurn ==
    /\ \A id \in DOMAIN conversations : TurnsOf(id) = {} => get_next_turn(id) = 1
    /\ \A r \in Reqs :
         req[r].pc \in {"respond", "done"} /\ req[r].user_saved /\ req[r].bot_saved =>
           get_next_turn(req[r].conversation_id) = req[r].next_turn + 1

\* C12 witness: a second turn was recorded in full and the next turn is 3
C12_Witness ==
    \E r \in Reqs : /\ req[r].pc = "done" /\ req[r].user_saved /\ req[r].bot_saved
                    /\ req[r].next_turn = 2
                    /\ get_next_turn(req[r].conversation_id) = 3

HighestTurn(id) ==
    IF TurnsOf(id) = {} THEN 0
    ELSE CHOOSE t \in TurnsOf(id) : \A u \in TurnsOf(id) : u <= t

NoneRunning == \A r \in Reqs : req[r].pc \in {"idle", "done"}

\* C13: between requests, get_next_turn equals 1 + the highest turn index among the
\* session's persisted messages, also when a user message was persisted without its
\* bot message.
C13_NextTurnFromPersistedMessages ==
    NoneRunning =>
      \A id \in DOMAIN conversations : get_next_turn(id) = 1 + HighestTurn(id)

\* C14: one invocation of the generation pipeline calls the generator at most once per
\* attempt and the consistency check at most once per generator call, hence makes at
\* most 2 * max_validation_attempts = 6 external calls.
C14_AtMostSixExternalCalls ==
    \A r \in Reqs :
      /\ req[r].gen_calls + req[r].check_calls <= 2 * max_validation_attempts
      /\ req[r].gen_calls <= max_validation_attempts
      /\ req[r].check_calls <= req[r].gen_calls
      /\ InPipeline(r) => req[r].gen_calls <= req[r].attempt + 1

\* C14 witness: all six calls were made and the pipeline ended in the fallback
C14_Witness ==
    \E r \in Reqs : /\ req[r].gen_calls = 3 /\ req[r].check_calls = 3
                    /\ req[r].bot_response.source = "fallback"

C16_UnknownTreatedAsTransient ==
    retry.pc = "done" =>
      \A i \in 1..Len(retry.outcomes) :
        retry.outcomes[i] = "Exception" => i = stop_after_attempt

\* C16 amended: an unknown error is not retried: it is the last call of the invocation,
\* which ends in failure.
C16_UnknownNotRetried ==
    \A i \in 1..Len(retry.outcomes) :
      retry.outcomes[i] = "Exception" =>
        /\ i = Len(retry.outcomes)
        /\ retry.pc = "done" /\ ~retry.success /\ retry.raised = "Exception"

\* C16 witness: an unknown error on the second call, after a retried transient one
C16_Witness ==
    /\ retry.pc = "done"
    /\ retry.outcomes = <<"RateLimitError", "Exception">>
    /\ retry.calls = 2

\* C17: a request that passed input validation ends either with a reply (200), or as
\* admission-denied (429), or as session-not-found (404, only when the session does not
\* exist); a failure of generation or validation is never surfaced as an error.
C17_OnlyDeniedOrNotFoundSurface ==
    \A r \in Reqs :
      req[r].pc = "done" =>
        /\ req[r].status \in {200, 404, 429}
        /\ req[r].status = 404 => req[r].kind = "continue" /\ req[r].conversation = "none"
        /\ req[r].status = 200 => ~req[r].bot_response.empty

\* C19: a call is denied exactly when max_requests allowed calls already lie in its
\* trailing window: starting from an empty window the first max_requests calls made
\* within one window are allowed, and the next one is denied, with retry_after > 0.
C19_FirstMaxAllowedThenDenied ==
    \A k \in Keys :
      lastCall[k].made =>
        IF lastCall[k].allowed
        THEN Cardinality(AllowedInWindow(k, lastCall[k].at)) <= max_requests
        ELSE /\ Cardinality(AllowedInWindow(k, lastCall[k].at)) = max_requests
             /\ lastCall[k].retry_after > 0

\* C19 witness: the first max_requests calls of a key were allowed and the next call,
\* made before the window of the first one ended, was denied
C19_Witness ==
    \E k \in Keys : /\ lastCall[k].made /\ ~lastCall[k].allowed
                    /\ Len(allowedLog[k]) = max_requests
                    /\ lastCall[k].at - allowedLog[k][1] < Window
                    /\ lastCall[k].retry_after > 0

\* the time, in ticks, until the oldest entry of a denied call leaves the window
Remaining(k) == lastCall[k].oldest + Window - lastCall[k].at

\* C20 as claimed: a denial returns retry_after = ceil(oldest + window_seconds - now),
\* in seconds.
C20_RetryAfterIsCeil ==
    \A k \in Keys :
      lastCall[k].made /\ ~lastCall[k].allowed =>
        /\ (lastCall[k].retry_after - 1) * Scale < Remaining(k)
        /\ Remaining(k) <= lastCall[k].retry_after * Scale

\* C20 amended: a denial returns retry_after = floor(oldest + window_seconds - now) + 1,
\* the smallest whole number of seconds strictly greater than the remaining time.
C20_RetryAfterIsFloorPlusOne ==
    \A k \in Keys :
      lastCall[k].made /\ ~lastCall[k].allowed =>
        /\ Remaining(k) > 0
        /\ (lastCall[k].retry_after - 1) * Scale <= Remaining(k)
        /\ Remaining(k) < lastCall[k].retry_after * Scale

\* C20 witness: a denial with a whole number of seconds remaining, where retry_after is
\* one more than the ceiling
C20_Witness ==
    \E k \in Keys : /\ lastCall[k].made /\ ~lastCall[k].allowed
                    /\ Remaining(k) % Scale = 0
                    /\ lastCall[k].retry_after * Scale = Remaining(k) + Scale

\* a request in flight whose is_allowed call answered False
Denied(r) == req[r].pc # "idle" /\ ~req[r].is_allowed

\* C18: a request denied by the rate limiter never reaches the conversation service:
\* it is answered 429 without a handler, a generator or a consistency-check call, and
\* the step that denies it, like every step taken while it is in flight, creates no
\* session and appends no message.
C18_DeniedRequestNeverServed ==
    /\ [](\A r \in Reqs :
            Denied(r) => /\ req[r].pc = "done" /\ req[r].status = 429
                         /\ req[r].kind = "none" /\ req[r].conversation = "unread"
                         /\ req[r].gen_calls = 0 /\ req[r].check_calls = 0
                         /\ req[r].bot_response.source = "none")
    /\ [][(\E r \in Reqs : Denied(r) \/ (req'[r].pc # "idle" /\ ~req'[r].is_allowed))
            => UNCHANGED <<conversations, messages, retry>>]_vars

\* C18 witness: a request is denied after the requests admitted before it were served
C18_Witness ==
    \E r \in Reqs : /\ Denied(r) /\ req[r].status = 429
                    /\ Len(messages) >= 2
                    /\ \E k \in Keys : Len(QueueOf(k)) = max_requests

Issues(v) == {v.issues[i] : i \in 1..Len(v.issues)}

\* C21: comprehensive_validation reports its checks independently: a candidate with
\* fewer than min_words words is invalid and its issues hold the too-few-words reason,
\* a candidate containing a capitulation phrase is invalid and its issues hold the
\* reason of that phrase; a candidate with both has both reasons.
C21_ChecksReportedIndependently ==
    \A r \in Reqs :
      req[r].pc = "validated" =>
        LET c == req[r].generated_response
            v == req[r].validator_result
        IN /\ c.words < min_words =>
                ~v.is_valid /\ ~v.length_valid /\ "too few words" \in Issues(v)
           /\ \A p \in c.agree :
                /\ ~v.is_valid /\ ~v.content_valid
                /\ ("inappropriate agreement: " \o p) \in Issues(v)

\* C21 witness: "I'm sorry": too few words and a capitulation phrase, both reported
C21_Witness ==
    \E r \in Reqs :
      /\ req[r].pc = "validated"
      /\ req[r].generated_response.words < min_words
      /\ req[r].generated_response.agree = {"i'm sorry"}
      /\ ~req[r].validator_result.is_valid
      /\ "too few words" \in Issues(req[r].validator_result)
      /\ "inappropriate agreement: i'm sorry" \in Issues(req[r].validator_result)

\* C25: when a step of start_new_conversation outside the generation pipeline raises
\* (topic analysis, position assignment, a persistence call), start_new_conversation
\* raises AIServiceError and /chat answers HTTP 503; no reply is produced.
C25_StartFailureIs503 ==
    \A r \in Reqs :
      req[r].pc = "done" /\ req[r].kind = "start" /\ req[r].escaped # "none" =>
        /\ req[r].raised = "AIServiceError"
        /\ req[r].status = 503
        /\ req[r].bot_response.source = "none"

\* C25 witness: the topic analysis raised and the request was answered 503
C25_Witness ==
    \E r \in Reqs : /\ req[r].pc = "done" /\ req[r].kind = "start"
                    /\ req[r].escaped = "ChainError" /\ req[r].status = 503

\* the timestamps of sequence q that lie inside the window ending at time t
InWindow(q, t) == SelectSeq(q, LAMBDA x : x > t - Window)

\* C28: no timestamp recorded by an allowed call and still inside the window is ever
\* lost, whatever the order of cleanup sweeps and is_allowed calls: for every key the
\* in-window timestamps of its allowed calls are those of its queue; and a step
\* removes a key only when none of its timestamps is inside the window.
C28_CleanupLosesNoLiveTimestamp ==
    [][(\A k \in Keys :
          InWindow(allowedLog'[k], now') =
            InWindow(IF k \in DOMAIN requests' THEN requests'[k] ELSE <<>>, now'))
       /\ (\A k \in DOMAIN requests :
             k \notin DOMAIN requests' => InWindow(requests[k], now) = <<>>)]_vars

\* C28 witness: a sweep has removed one key while another key, with calls allowed
\* before and inside the window, keeps its in-window timestamps
C28_Witness ==
    \E k, k2 \in Keys :
      /\ k \notin DOMAIN requests /\ allowedLog[k] # <<>>
      /\ k2 \in DOMAIN requests
      /\ InWindow(requests[k2], now) # <<>>
      /\ Len(InWindow(allowedLog[k2], now)) < Len(allowedLog[k2])

\* request record q holds a reply: _generate_response has returned
Replied(q) == q.pc \in {"add_bot", "respond"} \/ (q.pc = "done" /\ q.escaped = "none")

\* the reply held by q is the candidate of a passing attempt that every earlier
\* attempt preceded as a failure, or the fallback after 3 failed attempts
ReplyIsFirstPassing(q) ==
    Replied(q) =>
      IF q.bot_response.source = "generated"
      THEN /\ q.gen_calls = q.attempt + 1
           /\ q.check_calls >= 1
           /\ q.generated_response # NoCandidate
           /\ q.validator_result = comprehensive_validation(q.generated_response)
           /\ Accepts(q.validation_result, q.validator_result)
      ELSE /\ q.bot_response.source = "fallback"
           /\ q.gen_calls = 3
           /\ q.generated_response = NoCandidate

\* C29: the reply of a pipeline invocation is the candidate of the first attempt that
\* passes both checks (every attempt before it failed, and it is the last generator
\* call); the fallback reply is returned exactly when all 3 attempts failed; once the
\* reply is chosen no generator or consistency-check call is made.
C29_FirstPassingAttemptWins ==
    [][\A r \in Reqs :
         /\ ReplyIsFirstPassing(req'[r])
         /\ HasReply(r) /\ req'[r].pc # "idle" =>
              /\ req'[r].gen_calls = req[r].gen_calls
              /\ req'[r].check_calls = req[r].check_calls
              /\ req'[r].bot_response = req[r].bot_response]_vars

\* C29 witness: the first attempt failed, the second passed and its candidate was
\* returned after two generator calls
C29_Witness ==
    \E r \in Reqs : /\ req[r].pc = "done" /\ req[r].bot_response.source = "generated"
                    /\ req[r].gen_calls = 2 /\ req[r].check_calls = 2

\* the messages of session id, in the order of the table
MessagesOf(id) == SelectSeq(messages, LAMBDA m : m.conversation_id = id)

\* C23: on a successful request the result's messages are exactly the two messages of
\* the turn just processed, user first, then bot; conversation_history holds every
\* persisted message of the session ordered by turn, user before bot in each turn, so
\* after n completed turns it has 2n entries.
C23_ResultIsTurnAndFullHistory ==
    \A r \in Reqs :
      req[r].pc = "done" /\ req[r].status = 200 =>
        LET ms == req[r].result.messages
            h == req[r].result.conversation_history
            n == req[r].next_turn
        IN /\ Len(ms) = 2
           /\ ms[1].role = "user" /\ ms[2].role = "bot"
           /\ ms[1].turn = n /\ ms[2].turn = n
           /\ Len(h) = Len(MessagesOf(req[r].conversation_id))
           /\ Len(h) = 2 * n
           /\ \A i \in 1..Len(h) :
                /\ h[i].turn = (i + 1) \div 2
                /\ h[i].role = IF i % 2 = 1 THEN "user" ELSE "bot"

\* C22: every persisted message has non-empty content: a request whose message is
\* empty after the schema's normalisation is rejected, so it never reaches chat(), and
\* no recorded message, of the user or of the bot, is empty.
C22_PersistedMessagesNonEmpty ==
    /\ \A r \in Reqs :
         req[r].pc # "idle" /\ req[r].request.message = <<>> =>
           req[r].pc = "done" /\ req[r].status = 422
    /\ \A i \in 1..Len(messages) : ~messages[i].message.empty

\* the conversation_id values that ask for a new session: absent or null, "", "null"
AsksForNewSession(raw) == raw.is_none \/ raw.text \in {"", "null"}

\* C24: a request whose conversation_id is absent, null or "" always creates a new
\* session and records the inbound message as the user message of turn 1 of it
\* (unless the topic analysis failed), and never reads an existing session.
C24_NoIdStartsNewSession ==
    \A r \in Reqs :
      /\ req[r].pc = "done" /\ req[r].request.valid
      /\ AsksForNewSession(req[r].request.raw_conversation_id)
      /\ req[r].escaped # "ChainError"
      => /\ req[r].kind = "start"
         /\ req[r].conversation_id \in DOMAIN conversations
         /\ req[r].next_turn = 1
         /\ HasMessage(req[r].conversation_id, 1, "user")

ChainTextIsCandidate(q) ==
    /\ q.gen_call.kind = "llm_error" =>
         /\ q.pc \in {"check", "validate"}
         /\ q.generated_response # NoCandidate
         /\ q.generated_response.chars > 0
         /\ q.raised = "none"
    /\ q.bot_response.source = "generated" =>
         /\ q.validation_result.has_approved
         /\ q.validation_result.approved
         /\ comprehensive_validation(q.generated_response).is_valid

CheckFailed(q) == q.check_call.kind \in {"llm_error", "invalid_json"}

C30_ChainCallsAreRetried ==
    \A r \in Reqs :
      /\ req[r].gen_call.kind = "llm_error" /\ req[r].gen_call.error \in Transient =>
           req[r].gen_call.invokes = stop_after_attempt
      /\ req[r].check_call.kind = "llm_error" /\ req[r].check_call.error \in Transient =>
           req[r].check_call.invokes = stop_after_attempt

\* the max_turns of session id in the table convs, 0 standing for no session
MaxTurnsOf(convs, id) == IF id \in DOMAIN convs THEN convs[id].max_turns ELSE 0

\* the last row of the messages table
LastMessage(msgs) == msgs[Len(msgs)]

\* C31: an add_message with role user leaves every max_turns unchanged; one with role
\* bot inserts the message and raises the session's max_turns to max(max_turns, turn)
\* in the same step; an add_message that fails returns False and leaves the messages
\* and every max_turns unchanged.
C31_AddMessageEffect ==
    [][\A r \in Reqs :
         req[r].pc = "idle" /\ req'[r].pc = "db_done" =>
           IF req'[r].db_result = "False"
           THEN messages' = messages /\ conversations' = conversations
           ELSE /\ Len(messages') = Len(messages) + 1
                /\ SubSeq(messages', 1, Len(messages)) = messages
                /\ LET m == LastMessage(messages')
                   IN /\ DOMAIN conversations' = DOMAIN conversations
                      /\ \A id \in DOMAIN conversations :
                           conversations'[id].max_turns =
                             IF m.role = "bot" /\ id = m.conversation_id
                             THEN (IF conversations[id].max_turns >= m.turn
                                   THEN conversations[id].max_turns ELSE m.turn)
                             ELSE conversations[id].max_turns]_vars

\* C31 witness: a failed call returned False after a bot message of turn 2 had raised
\* max_turns and a user message had left it
C31_Witness ==
    \E r \in Reqs :
      /\ req[r].pc = "db_done" /\ req[r].db_result = "False"
      /\ Len(messages) >= 2
      /\ messages[Len(messages) - 1].role = "bot"
      /\ messages[Len(messages) - 1].turn = 2
      /\ LastMessage(messages).role = "user"
      /\ MaxTurnsOf(conversations, LastMessage(messages).conversation_id) = 2

\* C32: a session's max_turns starts at 0 and never decreases, whatever the
\* operations, also when a bot message is added for a turn below max_turns.
C32_MaxTurnsMonotone ==
    [][/\ DOMAIN conversations \subseteq DOMAIN conversations'
       /\ \A id \in DOMAIN conversations' :
            IF id \in DOMAIN conversations
            THEN conversations'[id].max_turns >= conversations[id].max_turns
            ELSE conversations'[id].max_turns = 0]_vars

\* C32 witness: a bot message of turn 1 was added to a session whose max_turns was 2
C32_Witness ==
    /\ Len(messages) >= 2
    /\ LET hi == messages[Len(messages) - 1]
           lo == LastMessage(messages)
       IN /\ hi.role = "bot" /\ hi.turn = 2
          /\ lo.role = "bot" /\ lo.turn = 1
          /\ lo.conversation_id = hi.conversation_id
          /\ MaxTurnsOf(conversations, lo.conversation_id) = 2


\* C33: with several requests for the same key outstanding at once, the calls of
\* is_allowed never admit more than max_requests of them within one window, and the
\* deque of a key never holds more than max_requests timestamps
C33_ConcurrentCallsKeepLimit ==
    \A k \in Keys :
        /\ Len(QueueOf(k)) <= max_requests
        /\ \A t \in 0..MaxTime :
              Cardinality({i \in DOMAIN allowedLog[k] :
                             allowedLog[k][i] > t - Window /\ allowedLog[k][i] <= t})
                  <= max_requests

\* a call has counted the deque one short of the limit and is about to append, while
\* another request for the same key waits for its call
C33_Witness ==
    \E c, o \in Callers :
        /\ c # o
        /\ limiterCalls[c].pc = "append"
        /\ limiterCalls[o].pc = "ready"
        /\ limiterCalls[o].key = limiterCalls[c].key
        /\ Len(QueueOf(limiterCalls[c].key)) = max_requests - 1

\* C34: at every instant a call of is_allowed gets the same answer, and when denied
\* the same retry_after, from the deques the sweeps have worked on as from the deques
\* the same calls leave when cleanup_old_entries never runs
C34_AnswersIndependentOfCleanup ==
    \A k \in Keys :
        LET swept == is_allowed(QueueOf(k), now)
            plain == is_allowed(unswept[k], now)
        IN /\ swept.allowed = plain.allowed
           /\ ~swept.allowed => swept.retry_after = plain.retry_after

\* a sweep has deleted a key whose deque the run without sweeps still holds, and a
\* call made now for another key is denied
C34_Witness ==
    /\ \E k \in Keys : k \notin DOMAIN requests /\ unswept[k] # <<>>
    /\ \E j \in Keys : ~is_allowed(QueueOf(j), now).allowed

StoredQueue(reqs, k) == IF k \in DOMAIN reqs THEN reqs[k] ELSE <<>>

\* C35: the deque of every key always holds at most max_requests timestamps, in
\* non-decreasing order, and when is_allowed is called for a key, or a sweep runs,
\* the deque is left without any timestamp that is a whole window old or older
C35_QueueBoundedSortedAndEvicted ==
    [][\A k \in Keys :
          LET q == StoredQueue(requests', k)
          IN /\ Len(q) <= max_requests
             /\ \A i \in 1..(Len(q) - 1) : q[i] <= q[i + 1]
             /\ \/ \A i \in 1..Len(q) : q[i] > now - Window
                \/ ~(IsAllowed(k) \/ Cleanup)]_vars

\* a call has just been admitted into a deque from which it evicted an expired
\* timestamp, and the deque is full
C35_Witness ==
    \E k \in Keys :
        /\ lastCall[k].made /\ lastCall[k].allowed /\ lastCall[k].at = now
        /\ Len(QueueOf(k)) = max_requests
        /\ Head(allowedLog[k]) <= now - Window
        /\ Head(QueueOf(k)) > now - Window

\* the first instant from t on at which a call on the deque q is admitted
ReadmittedAt(q, t) ==
    CHOOSE u \in t..(t + Window) :
        /\ is_allowed(q, u).allowed
        /\ \A v \in t..(u - 1) : ~is_allowed(q, v).allowed

\* C36: a denied call of is_allowed (a step that records a denial as the last call
\* of the key) records nothing: it leaves the deque of the key
\* as it was but for the eviction of expired timestamps, adds no admitted timestamp,
\* and leaves the instant at which the key is admitted again where it was
C36_DeniedCallRecordsNothing ==
    [][\A k \in Keys :
          (lastCall'[k] # lastCall[k] /\ ~lastCall'[k].allowed)
             => /\ StoredQueue(requests', k) = Evict(QueueOf(k), now - Window)
                /\ allowedLog' = allowedLog
                /\ ReadmittedAt(StoredQueue(requests', k), now)
                      = ReadmittedAt(QueueOf(k), now)]_vars

\* a call has just been denied, some time after the deque of its key filled up
C36_Witness ==
    \E k \in Keys :
        /\ lastCall[k].made /\ ~lastCall[k].allowed /\ lastCall[k].at = now
        /\ Len(QueueOf(k)) = max_requests
        /\ QueueOf(k)[max_requests] < now

\* how many times the reason x stands in the issues of the verdict v
Occurrences(v, x) == Cardinality({i \in 1..Len(v.issues) : v.issues[i] = x})

\* C37: comprehensive_validation answers is_valid exactly when its issues list is
\* empty, and the list holds one reason of its own for each length bound the
\* candidate violates (too short, too long, too few words, too many words) and none
\* for a bound it respects
C37_ValidIffNoIssuesAndBoundsSeparate ==
    \A r \in Reqs :
      req[r].pc = "validated" =>
        LET c == req[r].generated_response
            v == req[r].validator_result
        IN /\ v.is_valid = (Len(v.issues) = 0)
           /\ Occurrences(v, "too short") = (IF c.chars < min_length THEN 1 ELSE 0)
           /\ Occurrences(v, "too long") = (IF c.chars > max_length THEN 1 ELSE 0)
           /\ Occurrences(v, "too few words") = (IF c.words < min_words THEN 1 ELSE 0)
           /\ Occurrences(v, "too many words") = (IF c.words > max_words THEN 1 ELSE 0)

\* a candidate over both upper bounds, with no other fault: two reasons, invalid
C37_Witness ==
    \E r \in Reqs :
      /\ req[r].pc = "validated"
      /\ req[r].generated_response.chars > max_length
      /\ req[r].generated_response.words > max_words
      /\ req[r].validator_result.issues = <<"too long", "too many words">>
      /\ ~req[r].validator_result.is_valid

\* C38: a continue_conversation call whose get_conversation finds no session ends at
\* once: the step that finds it missing changes neither table, the request is done
\* with it, and no generator or consistency-check call has been made for it
C38_UnknownSessionChangesNothing ==
    [][\A r \in Reqs :
          (req'[r].kind = "continue" /\ req'[r].conversation = "none")
             => /\ conversations' = conversations
                /\ messages' = messages
                /\ req[r].pc = "idle" /\ req'[r].pc = "done"
                /\ req'[r].gen_calls = 0 /\ req'[r].check_calls = 0
                /\ req'[r].gen_call = NoCall /\ req'[r].check_call = NoCall
                /\ req'[r].result.messages = <<>>]_vars

\* a continue request for a session that does not exist has ended
C38_Witness ==
    \E r \in Reqs :
        /\ req[r].kind = "continue" /\ req[r].pc = "done"
        /\ req[r].conversation = "none"
        /\ ~conversation_exists(req[r].conversation_id)
        /\ req[r].escaped = "ConversationNotFoundError"

\* C39: a request to /docs, /openapi.json, /redoc or /health is never answered 429
\* and no step of it, from its arrival to its return, changes the deque of any
\* client or the record of the admitted and the last calls
C39_ExcludedPathsBypassLimiter ==
    [][\A r \in Reqs :
          (\/ req[r].path \in {"/docs", "/openapi.json", "/redoc", "/health"}
           \/ req'[r].path \in {"/docs", "/openapi.json", "/redoc", "/health"})
             => /\ requests' = requests
                /\ allowedLog' = allowedLog
                /\ lastCall' = lastCall
                /\ req'[r].status # 429]_vars

\* /health is being served while a client has used up its window
C39_Witness ==
    \E r \in Reqs :
        /\ req[r].path = "/health" /\ req[r].pc = "passed" /\ req[r].status = 200
        /\ \E k \in Keys : /\ Len(QueueOf(k)) = max_requests
                            /\ ~is_allowed(QueueOf(k), now).allowed
====
